---- MODULE Spec2Model ----
(***************************************************************************)
(* Model of the Hue Zigbee light-update codec (hue-zigbee-encoding).       *)
(*                                                                         *)
(* Byte buffers are sequences of integers 0..255; the code's 0-based       *)
(* offset o is index o + 1 of the sequence.  An optional field is the      *)
(* empty sequence when undefined and a one-element sequence otherwise.     *)
(* The fractional numbers a message is given with (normalized colors,      *)
(* gradient scale/offset) are rationals [num, den] with den > 0, and so    *)
(* are the results of the one-operation conversions of colorXY and         *)
(* gradientParams.  The scaled colors of a gradient go through a division  *)
(* and a multiplication that each round: they are IEEE 754 doubles.        *)
(***************************************************************************)
EXTENDS Integers, Sequences, FiniteSets, TLC

VARIABLES pc, msg, enc, data, dec, str, hexOut

vars == <<pc, msg, enc, data, dec, str, hexOut>>

(***************************************************************************)
(* Bounds of the model.                                                    *)
(***************************************************************************)
\* largest number of gradient colors of an input message
MaxColors == 16
\* input colors are multiples of 1/XYDen
XYDen == 8
\* longest payload (bytes after the flag word) of a hand-built buffer
MaxPayload == 12

\* longest byte sequence given to HueLightColorXYScaled.fromBytes
MaxColorBytes == 4

\* largest scaled coordinate converted with fromScaled and back
MaxScaled == 63

\* longest hex string / byte sequence given to the hex helpers
MaxHexLen == 4

(***************************************************************************)
(* Program constants.                                                      *)
(***************************************************************************)
ON_OFF == 1
BRIGHTNESS == 2
COLOR_MIRED == 4
COLOR_XY == 8
TRANSITION_TIME == 16
EFFECT == 32
GRADIENT_PARAMS == 64
EFFECT_SPEED == 128
GRADIENT_COLORS == 256

\* SCALING_MAX_X = 0.7347 and SCALING_MAX_Y = 0.8264 as rationals
SCALING_MAX_X == [num |-> 7347, den |-> 10000]
SCALING_MAX_Y == [num |-> 8264, den |-> 10000]

undefined == <<>>

Fields ==
  {"isOn", "brightness", "colorTemp", "colorXY", "transitionTime", "effect",
   "gradient", "effectSpeed", "gradientParams"}

(***************************************************************************)
(* Arithmetic of the JavaScript numbers the code uses.                     *)
(***************************************************************************)
RECURSIVE GCD(_, _)
GCD(a, b) == IF b = 0 THEN a ELSE GCD(b, a % b)

Abs(a) == IF a < 0 THEN -a ELSE a

\* the rational n/d in lowest terms
Rat(n, d) ==
  LET g == GCD(Abs(n), d)
  IN  IF n = 0 THEN [num |-> 0, den |-> 1] ELSE [num |-> n \div g, den |-> d \div g]

\* a * b, cancelling across before multiplying
RatMul(a, b) ==
  LET g1 == IF a.num = 0 THEN b.den ELSE GCD(Abs(a.num), b.den)
      g2 == IF b.num = 0 THEN a.den ELSE GCD(Abs(b.num), a.den)
  IN  Rat((a.num \div g1) * (b.num \div g2), (a.den \div g2) * (b.den \div g1))

\* a / b for b > 0
RatDiv(a, b) == RatMul(a, [num |-> b.den, den |-> b.num])

RatInt(n) == [num |-> n, den |-> 1]

RatLeq(a, b) == a.num * b.den <= b.num * a.den

RatEq(a, b) == a.num * b.den = b.num * a.den

\* Math.trunc, and the integer conversion of DataView setters: toward zero
Trunc(a) == IF a.num >= 0 THEN a.num \div a.den ELSE -((-a.num) \div a.den)

\* flags & bit, for a single-bit mask
HasFlag(flags, bit) == (flags \div bit) % 2 = 1

\* flags | bit, for a single-bit mask
OrFlag(flags, bit) == IF HasFlag(flags, bit) THEN flags ELSE flags + bit

(***************************************************************************)
(* IEEE 754 doubles, the numbers HueLightColorXY computes with.  A double  *)
(* is NaN, an infinity, or (-1)^neg * m * 2^e with m = 0 or                *)
(* 2^52 <= m < 2^53.  The integers of the arithmetic exceed what TLC       *)
(* holds, so they are four limbs of 27 bits, lowest first.  Zero carries   *)
(* no sign, and exponents are not bounded: the values of the model stay    *)
(* far from the subnormal and the overflow range.                          *)
(***************************************************************************)
Base == 2 ^ 27

BigOf(n) == <<n % Base, n \div Base, 0, 0>>

Limb(a, i) == IF i \in 1..Len(a) THEN a[i] ELSE 0

BigAdd(a, b) ==
  LET s1 == a[1] + b[1]
      s2 == a[2] + b[2] + (s1 \div Base)
      s3 == a[3] + b[3] + (s2 \div Base)
      s4 == a[4] + b[4] + (s3 \div Base)
  IN  <<s1 % Base, s2 % Base, s3 % Base, s4 % Base>>

\* a - b, for a >= b
BigSub(a, b) ==
  LET s1 == a[1] - b[1]
      s2 == a[2] - b[2] + (s1 \div Base)
      s3 == a[3] - b[3] + (s2 \div Base)
      s4 == a[4] - b[4] + (s3 \div Base)
  IN  <<s1 % Base, s2 % Base, s3 % Base, s4 % Base>>

BigLess(a, b) ==
  \E i \in 1..4 : a[i] < b[i] /\ \A j \in (i + 1)..4 : a[j] = b[j]

BigPow2(k) == [i \in 1..4 |-> IF i = (k \div 27) + 1 THEN 2 ^ (k % 27) ELSE 0]

BigBit(a, k) == (a[(k \div 27) + 1] \div (2 ^ (k % 27))) % 2

\* floor(a / 2^k)
BigShr(a, k) ==
  LET ls == k \div 27
      bs == k % 27
  IN  [i \in 1..4 |-> (Limb(a, i + ls) \div (2 ^ bs))
                       + ((Limb(a, i + ls + 1) % (2 ^ bs)) * (2 ^ (27 - bs)))]

\* a * 2^k, for a result below 2^108
BigShl(a, k) ==
  LET ls == k \div 27
      bs == k % 27
  IN  [i \in 1..4 |-> ((Limb(a, i - ls) % (2 ^ (27 - bs))) * (2 ^ bs))
                       + (Limb(a, i - ls - 1) \div (2 ^ (27 - bs)))]

\* a mod 2^k
BigLow(a, k) ==
  [i \in 1..4 |-> IF i <= k \div 27 THEN a[i]
                  ELSE IF i = (k \div 27) + 1 THEN a[i] % (2 ^ (k % 27))
                  ELSE 0]

\* the number of bits of a: 0 for 0, else L with 2^(L-1) <= a < 2^L
BitLength(a) ==
  IF a = BigOf(0) THEN 0
  ELSE LET top == CHOOSE i \in 1..4 : a[i] # 0 /\ \A j \in (i + 1)..4 : a[j] = 0
       IN  27 * (top - 1)
             + (CHOOSE j \in 1..27 : 2 ^ (j - 1) <= a[top] /\ a[top] < 2 ^ j)

\* the four 14-bit digits of a < 2^56, lowest first
Digits14(a) ==
  << a[1] % 16384,
     (a[1] \div 16384) + ((a[2] % 2) * 8192),
     (a[2] \div 2) % 16384,
     a[2] \div 32768 >>

\* a * b for a and b below 2^53: the products of the 14-bit digits are summed
\* by column, the carries passed up, and the eight digits regrouped in limbs
BigMul(a, b) ==
  LET x  == Digits14(a)
      y  == Digits14(b)
      c0 == x[1] * y[1]
      c1 == (x[1] * y[2]) + (x[2] * y[1]) + (c0 \div 16384)
      c2 == (x[1] * y[3]) + (x[2] * y[2]) + (x[3] * y[1]) + (c1 \div 16384)
      c3 == (x[1] * y[4]) + (x[2] * y[3]) + (x[3] * y[2]) + (x[4] * y[1])
              + (c2 \div 16384)
      c4 == (x[2] * y[4]) + (x[3] * y[3]) + (x[4] * y[2]) + (c3 \div 16384)
      c5 == (x[3] * y[4]) + (x[4] * y[3]) + (c4 \div 16384)
      c6 == (x[4] * y[4]) + (c5 \div 16384)
      d0 == c0 % 16384
      d1 == c1 % 16384
      d2 == c2 % 16384
      d3 == c3 % 16384
      d4 == c4 % 16384
      d5 == c5 % 16384
      d6 == c6 % 16384
      d7 == c6 \div 16384
  IN  << d0 + ((d1 % 8192) * 16384),
         (d1 \div 8192) + (d2 * 2) + ((d3 % 4096) * 32768),
         (d3 \div 4096) + (d4 * 4) + ((d5 % 2048) * 65536),
         (d5 \div 2048) + (d6 * 8) + (d7 * 131072) >>

\* st.k more bits of the quotient by d, for 2^52 <= d < 2^53: the limbs
\* st.ql, st.qh are the bits found so far and st.rl, st.rh (below 2d) twice
\* what is left to divide
RECURSIVE BigDivBits(_, _)
BigDivBits(d, st) ==
  IF st.k = 0 THEN st
  ELSE LET bit == IF st.rh > d[2] \/ (st.rh = d[2] /\ st.rl >= d[1]) THEN 1 ELSE 0
           sl  == st.rl - (bit * d[1])
           sh  == st.rh - (bit * d[2]) + (sl \div Base)
           rl2 == 2 * (sl % Base)
           ql2 == (2 * st.ql) + bit
       IN  BigDivBits(d, [ql |-> ql2 % Base,
                          qh |-> (2 * st.qh) + (ql2 \div Base),
                          rl |-> rl2 % Base,
                          rh |-> (2 * sh) + (rl2 \div Base),
                          k  |-> st.k - 1])

NaN == [cls |-> "nan", neg |-> FALSE, m |-> BigOf(0), e |-> 0]

Infinity(neg) == [cls |-> "inf", neg |-> neg, m |-> BigOf(0), e |-> 0]

Finite(neg, m, e) ==
  [cls |-> "finite", neg |-> neg /\ m # BigOf(0), m |-> m,
   e |-> IF m = BigOf(0) THEN 0 ELSE e]

IsZero(a) == a.cls = "finite" /\ a.m = BigOf(0)

\* the double nearest to (n + f) * 2^e, ties to even, where 0 < f < 1 if
\* sticky and f = 0 otherwise
RoundNearestEven(neg, n, sticky, e) ==
  LET len  == BitLength(n)
      sh   == len - 53
      q    == BigShr(n, sh)
      rem  == BigLow(n, sh)
      half == BigPow2(sh - 1)
      up   == \/ BigLess(half, rem)
              \/ rem = half /\ (sticky \/ BigBit(q, 0) = 1)
      q1   == IF up THEN BigAdd(q, BigOf(1)) ELSE q
  IN  IF len = 0 THEN Finite(FALSE, BigOf(0), 0)
      ELSE IF len <= 53 THEN Finite(neg, BigShl(n, 53 - len), e - (53 - len))
      ELSE IF q1 = BigPow2(53) THEN Finite(neg, BigPow2(52), e + sh + 1)
      ELSE Finite(neg, q1, e + sh)

\* the double of an integer below 2^31 in magnitude
F64OfInt(n) == RoundNearestEven(n < 0, BigOf(Abs(n)), FALSE, 0)

\* a * b
F64Mul(a, b) ==
  IF a.cls = "nan" \/ b.cls = "nan" THEN NaN
  ELSE IF a.cls = "inf" \/ b.cls = "inf"
       THEN (IF IsZero(a) \/ IsZero(b) THEN NaN ELSE Infinity(a.neg # b.neg))
  ELSE RoundNearestEven(a.neg # b.neg, BigMul(a.m, b.m), FALSE, a.e + b.e)

\* a / b
F64Div(a, b) ==
  IF a.cls = "nan" \/ b.cls = "nan" THEN NaN
  ELSE IF a.cls = "inf"
       THEN (IF b.cls = "inf" THEN NaN ELSE Infinity(a.neg # b.neg))
  ELSE IF b.cls = "inf" THEN Finite(FALSE, BigOf(0), 0)
  ELSE IF IsZero(b) THEN (IF IsZero(a) THEN NaN ELSE Infinity(a.neg # b.neg))
  ELSE IF IsZero(a) THEN a
  ELSE LET d == BigDivBits(b.m, [ql |-> 0, qh |-> 0, rl |-> a.m[1], rh |-> a.m[2],
                                 k |-> 55])
       IN  RoundNearestEven(a.neg # b.neg, <<d.ql, d.qh % Base, d.qh \div Base, 0>>,
                            d.rl # 0 \/ d.rh # 0, a.e - b.e - 54)

\* |a| < |b|, for finite a and b
MagnitudeLess(a, b) ==
  IF IsZero(b) THEN FALSE
  ELSE IF IsZero(a) THEN TRUE
  ELSE a.e < b.e \/ (a.e = b.e /\ BigLess(a.m, b.m))

\* a < b, for a and b other than NaN
F64Less(a, b) ==
  IF a.cls = "inf" THEN a.neg /\ ~(b.cls = "inf" /\ b.neg)
  ELSE IF b.cls = "inf" THEN ~b.neg
  ELSE IF a.neg # b.neg THEN a.neg
  ELSE IF a.neg THEN MagnitudeLess(b, a)
  ELSE MagnitudeLess(a, b)

MathMin(a, b) ==
  IF a.cls = "nan" \/ b.cls = "nan" THEN NaN ELSE IF F64Less(b, a) THEN b ELSE a

MathMax(a, b) ==
  IF a.cls = "nan" \/ b.cls = "nan" THEN NaN ELSE IF F64Less(a, b) THEN b ELSE a

\* Math.trunc(a): the fraction bits of a dropped
MathTrunc(a) ==
  IF a.cls # "finite" \/ a.e >= 0 THEN a
  ELSE IF a.e <= -53 THEN Finite(FALSE, BigOf(0), 0)
  ELSE RoundNearestEven(a.neg, BigShr(a.m, -a.e), FALSE, 0)

\* the doubles of the literals 0.7347 and 0.8264
SCALING_MAX_X_F64 == Finite(FALSE, <<51110111, 49304882, 0, 0>>, -53)

SCALING_MAX_Y_F64 == Finite(FALSE, <<28132036, 55458765, 0, 0>>, -53)

\* the doubles 0, 1 and 0xfff
Zero_F64 == F64OfInt(0)

One_F64 == F64OfInt(1)

Max12_F64 == F64OfInt(4095)

\* the number a coordinate holds: a double as it is, a fraction num/den as
\* the double nearest to it
AsDouble(v) ==
  IF "num" \in DOMAIN v THEN F64Div(F64OfInt(v.num), F64OfInt(v.den)) ELSE v

\* the integer an integer-valued double below 2^31 in magnitude holds
IntOf(a) ==
  IF IsZero(a) THEN 0
  ELSE LET n == BigShr(a.m, -a.e)
       IN  (IF a.neg THEN -1 ELSE 1) * (n[1] + (n[2] * Base))

\* ToInt32(a) & 0xfff, the operand conversion of the bitwise operators: NaN
\* and the infinities give 0, the fraction is dropped, a negative number is
\* taken in two's complement
ToInt32Low12(a) ==
  IF a.cls # "finite" THEN 0
  ELSE LET mag == IF a.e >= 12 \/ a.e <= -53 THEN 0
                  ELSE IF a.e >= 0 THEN (BigLow(a.m, 12)[1] * (2 ^ a.e)) % 4096
                  ELSE BigLow(BigShr(a.m, -a.e), 12)[1]
       IN  IF a.neg THEN (4096 - mag) % 4096 ELSE mag

(***************************************************************************)
(* HueLightColorXYScaled and HueLightColorXY.  The coordinates of a scaled *)
(* color are doubles; those of a color are doubles, or fractions num/den   *)
(* where a message is given with them.                                     *)
(***************************************************************************)
\* ScaledToBytes without the shift of y's low nibble into the high one
ScaledToBytesNoShift(s) ==
  LET x == ToInt32Low12(s.x)
      y == ToInt32Low12(s.y)
  IN  << x % 256, (x \div 256) + (y % 16), y \div 16 >>

\* HueLightColorXYScaled.toBytes
ScaledToBytes(s) ==
  LET x == ToInt32Low12(s.x)
      y == ToInt32Low12(s.y)
  IN  << x % 256, (x \div 256) + ((y % 16) * 16), y \div 16 >>

\* HueLightColorXYScaled.fromBytes; the caller has checked Len(t) = 3
ScaledFromBytes(t) ==
  [x |-> F64OfInt(((t[2] % 16) * 256) + t[1]),
   y |-> F64OfInt((t[3] * 16) + (t[2] \div 16))]

\* XYScaledFromBytes with the length check relaxed to "at least 3 bytes"
XYScaledFromBytesAtLeast(t) ==
  IF Len(t) < 3 THEN [err |-> "Expected3Bytes", color |-> undefined]
  ELSE [err |-> "none", color |-> <<ScaledFromBytes(t)>>]

\* HueLightColorXYScaled.fromBytes(data): the length check, then the unpacking
XYScaledFromBytes(t) ==
  IF Len(t) # 3 THEN [err |-> "Expected3Bytes", color |-> undefined]
  ELSE [err |-> "none", color |-> <<ScaledFromBytes(t)>>]

\* Math.trunc(0xfff * Math.max(0, Math.min(v / max, 1)))
ScaleAxis(v, max) ==
  MathTrunc(F64Mul(Max12_F64, MathMax(Zero_F64, MathMin(F64Div(v, max), One_F64))))

\* HueLightColorXY.toScaled
toScaled(c) ==
  [x |-> ScaleAxis(AsDouble(c.x), SCALING_MAX_X_F64),
   y |-> ScaleAxis(AsDouble(c.y), SCALING_MAX_Y_F64)]

\* HueLightColorXY.fromScaled: the division is rounded, then the product
fromScaled(s) ==
  [x |-> F64Mul(F64Div(s.x, Max12_F64), SCALING_MAX_X_F64),
   y |-> F64Mul(F64Div(s.y, Max12_F64), SCALING_MAX_Y_F64)]

(***************************************************************************)
(* HueLightUpdateMessage.toBytes.  The encoder state carries the array,    *)
(* the write offset, the flag word, the pending exception (err) and, as a  *)
(* record of what happened, the offset at which each field was written.    *)
(***************************************************************************)
NoMessage ==
  [isOn |-> undefined, brightness |-> undefined, colorTemp |-> undefined,
   colorXY |-> undefined, transitionTime |-> undefined, effect |-> undefined,
   effectSpeed |-> undefined, gradient |-> undefined,
   gradientParams |-> undefined]

encodedLength(m) ==
  2 +
  (IF m.isOn # undefined THEN 1 ELSE 0) +
  (IF m.brightness # undefined THEN 1 ELSE 0) +
  (IF m.colorTemp # undefined THEN 2 ELSE 0) +
  (IF m.colorXY # undefined THEN 4 ELSE 0) +
  (IF m.transitionTime # undefined THEN 2 ELSE 0) +
  (IF m.effect # undefined THEN 1 ELSE 0) +
  (IF m.gradient # undefined THEN 5 + 3 * Len(m.gradient[1].colors) ELSE 0) +
  (IF m.effectSpeed # undefined THEN 1 ELSE 0) +
  (IF m.gradientParams # undefined THEN 2 ELSE 0)

\* DataView.setUint8: RangeError outside the view, else the value mod 2^8
setUint8(st, off, v) ==
  IF st.err # "none" THEN st
  ELSE IF off + 1 > Len(st.array) THEN [st EXCEPT !.err = "OutOfBounds"]
  ELSE [st EXCEPT !.array[off + 1] = v % 256]

\* DataView.setUint16(…, true): little-endian, the value mod 2^16
setUint16(st, off, v) ==
  IF st.err # "none" THEN st
  ELSE IF off + 2 > Len(st.array) THEN [st EXCEPT !.err = "OutOfBounds"]
  ELSE [st EXCEPT !.array[off + 1] = v % 256,
                  !.array[off + 2] = (v % 65536) \div 256]

\* Uint8Array.set(bytes, offset): RangeError when the bytes do not fit
arraySet(st, bytes, off) ==
  IF st.err # "none" THEN st
  ELSE IF off + Len(bytes) > Len(st.array) THEN [st EXCEPT !.err = "OutOfBounds"]
  ELSE [st EXCEPT !.array =
          [i \in 1..Len(st.array) |->
             IF i > off /\ i <= off + Len(bytes) THEN bytes[i - off]
             ELSE st.array[i]]]

\* offset += n, once the writes of the field went through
Advance(st, n) == IF st.err # "none" THEN st ELSE [st EXCEPT !.offset = @ + n]

\* flags |= bit, and the record of where the field starts
Mark(st, field, bit) ==
  [st EXCEPT !.flags = OrFlag(@, bit), !.pos[field] = st.offset]

EncodeIsOn(st, m) ==
  IF st.err # "none" \/ m.isOn = undefined THEN st
  ELSE Advance(setUint8(Mark(st, "isOn", ON_OFF), st.offset,
                        IF m.isOn[1] THEN 1 ELSE 0), 1)
\* EncodeBrightness rejecting only what does not fit a byte
EncodeBrightnessByte(st, m) ==
  IF st.err # "none" \/ m.brightness = undefined THEN st
  ELSE IF m.brightness[1] < 0 \/ m.brightness[1] > 255
       THEN [st EXCEPT !.err = "BrightnessRange"]
  ELSE Advance(setUint8(Mark(st, "brightness", BRIGHTNESS), st.offset,
                        m.brightness[1]), 1)

EncodeBrightness(st, m) ==
  IF st.err # "none" \/ m.brightness = undefined THEN st
  ELSE IF m.brightness[1] < 1 \/ m.brightness[1] > 254
       THEN [st EXCEPT !.err = "BrightnessRange"]
  ELSE Advance(setUint8(Mark(st, "brightness", BRIGHTNESS), st.offset,
                        m.brightness[1]), 1)

EncodeColorTemp(st, m) ==
  IF st.err # "none" \/ m.colorTemp = undefined THEN st
  ELSE Advance(setUint16(Mark(st, "colorTemp", COLOR_MIRED), st.offset,
                         m.colorTemp[1].mired), 2)
\* EncodeColorXY advancing by the size of one coordinate only
EncodeColorXYShort(st, m) ==
  IF st.err # "none" \/ m.colorXY = undefined THEN st
  ELSE Advance(
         setUint16(
           setUint16(Mark(st, "colorXY", COLOR_XY), st.offset,
                     Trunc(RatMul(m.colorXY[1].x, RatInt(65535)))),
           st.offset + 2, Trunc(RatMul(m.colorXY[1].y, RatInt(65535)))), 2)

EncodeColorXY(st, m) ==
  IF st.err # "none" \/ m.colorXY = undefined THEN st
  ELSE Advance(
         setUint16(
           setUint16(Mark(st, "colorXY", COLOR_XY), st.offset,
                     Trunc(RatMul(m.colorXY[1].x, RatInt(65535)))),
           st.offset + 2, Trunc(RatMul(m.colorXY[1].y, RatInt(65535)))), 4)

EncodeTransitionTime(st, m) ==
  IF st.err # "none" \/ m.transitionTime = undefined THEN st
  ELSE Advance(setUint16(Mark(st, "transitionTime", TRANSITION_TIME),
                         st.offset, m.transitionTime[1]), 2)

EncodeEffect(st, m) ==
  IF st.err # "none" \/ m.effect = undefined THEN st
  ELSE Advance(setUint8(Mark(st, "effect", EFFECT), st.offset, m.effect[1]), 1)

\* the loop over gradient.colors: array.set(color.toScaled().toBytes(), offset)
RECURSIVE EncodeColors(_, _, _)
EncodeColors(st, colors, i) ==
  IF st.err # "none" \/ i > Len(colors) THEN st
  ELSE EncodeColors(
         Advance(arraySet(st, ScaledToBytes(toScaled(colors[i])), st.offset), 3),
         colors, i + 1)
\* EncodeGradient writing the color count into the low nibble
EncodeGradientCountLow(st, m) ==
  IF st.err # "none" \/ m.gradient = undefined THEN st
  ELSE LET g    == m.gradient[1]
           size == 4 + 3 * Len(g.colors)
           s0   == Mark(st, "gradient", GRADIENT_COLORS)
           s1   == Advance(setUint8(s0, s0.offset, size), 1)
           s2   == Advance(setUint8(s1, s1.offset, Len(g.colors)), 1)
           s3   == Advance(setUint8(s2, s2.offset, g.style), 1)
           s4   == Advance(s3, 2)
       IN  EncodeColors(s4, g.colors, 1)
\* EncodeGradient refusing more colors than the count nibble holds
EncodeGradientMax15(st, m) ==
  IF st.err # "none" \/ m.gradient = undefined THEN st
  ELSE IF Len(m.gradient[1].colors) > 15 THEN [st EXCEPT !.err = "OutOfBounds"]
  ELSE LET g    == m.gradient[1]
           size == 4 + 3 * Len(g.colors)
           s0   == Mark(st, "gradient", GRADIENT_COLORS)
           s1   == Advance(setUint8(s0, s0.offset, size), 1)
           s2   == Advance(setUint8(s1, s1.offset, Len(g.colors) * 16), 1)
           s3   == Advance(setUint8(s2, s2.offset, g.style), 1)
           s4   == Advance(s3, 2)
       IN  EncodeColors(s4, g.colors, 1)

EncodeGradient(st, m) ==
  IF st.err # "none" \/ m.gradient = undefined THEN st
  ELSE LET g    == m.gradient[1]
           size == 4 + 3 * Len(g.colors)
           s0   == Mark(st, "gradient", GRADIENT_COLORS)
           s1   == Advance(setUint8(s0, s0.offset, size), 1)
           s2   == Advance(setUint8(s1, s1.offset, Len(g.colors) * 16), 1)
           s3   == Advance(setUint8(s2, s2.offset, g.style), 1)
           s4   == Advance(s3, 2)
       IN  EncodeColors(s4, g.colors, 1)

EncodeEffectSpeed(st, m) ==
  IF st.err # "none" \/ m.effectSpeed = undefined THEN st
  ELSE Advance(setUint8(Mark(st, "effectSpeed", EFFECT_SPEED), st.offset,
                        m.effectSpeed[1]), 1)
\* EncodeGradientParams rounding the products to the nearest integer
EncodeGradientParamsRounded(st, m) ==
  IF st.err # "none" \/ m.gradientParams = undefined THEN st
  ELSE Advance(
         setUint8(
           setUint8(Mark(st, "gradientParams", GRADIENT_PARAMS), st.offset,
                    (Trunc(RatMul(m.gradientParams[1].scale, RatInt(16))) + 1) \div 2),
           st.offset + 1,
           (Trunc(RatMul(m.gradientParams[1].offset, RatInt(16))) + 1) \div 2), 2)

EncodeGradientParams(st, m) ==
  IF st.err # "none" \/ m.gradientParams = undefined THEN st
  ELSE Advance(
         setUint8(
           setUint8(Mark(st, "gradientParams", GRADIENT_PARAMS), st.offset,
                    Trunc(RatMul(m.gradientParams[1].scale, RatInt(8)))),
           st.offset + 1,
           Trunc(RatMul(m.gradientParams[1].offset, RatInt(8)))), 2)

\* the check of the final offset against the precomputed length
CheckLength(st, m) ==
  IF st.err # "none" THEN st
  ELSE IF st.offset # encodedLength(m) THEN [st EXCEPT !.err = "Invariant"]
  ELSE st
\* WriteFlags with the flag word big-endian
WriteFlagsBigEndian(st) ==
  IF st.err # "none" THEN st
  ELSE [st EXCEPT !.array[1] = st.flags \div 256, !.array[2] = st.flags % 256]

\* view.setUint16(0, flags, true)
WriteFlags(st) == setUint16(st, 0, st.flags)

\* the whole of toBytes: err = "none" and the returned array, or the
\* exception thrown
toBytes(m) ==
  LET s0 == [array  |-> [i \in 1..encodedLength(m) |-> 0],
             offset |-> 2,
             flags  |-> 0,
             err    |-> "none",
             pos    |-> [f \in Fields |-> -1]]
      s1 == EncodeIsOn(s0, m)
      s2 == EncodeBrightness(s1, m)
      s3 == EncodeColorTemp(s2, m)
      s4 == EncodeColorXY(s3, m)
      s5 == EncodeTransitionTime(s4, m)
      s6 == EncodeEffect(s5, m)
      s7 == EncodeGradient(s6, m)
      s8 == EncodeEffectSpeed(s7, m)
      s9 == EncodeGradientParams(s8, m)
  IN  WriteFlags(CheckLength(s9, m))

(***************************************************************************)
(* HueLightUpdateMessage.fromBytes.  The decoder state carries the read    *)
(* offset, the flag word, the message built so far, the pending exception  *)
(* and the offset at which each field was read.                            *)
(***************************************************************************)
\* DataView.getUint8 / getUint16 throw a RangeError outside the view
InView(view, off, n) == off >= 0 /\ off + n <= Len(view)

getUint8(view, off) == view[off + 1]

\* getUint16(off, true): little-endian
getUint16(view, off) == view[off + 1] + 256 * view[off + 2]

Fail(st, e) == [st EXCEPT !.err = e]

\* the field starts at the current offset
Seen(st, field) == [st EXCEPT !.pos[field] = st.offset]
\* DecodeFlags rejecting a flag word with a bit no field is assigned to
DecodeFlagsStrict(view) ==
  LET s0 == [offset |-> 0, flags |-> 0, result |-> NoMessage, err |-> "none",
             pos |-> [f \in Fields |-> -1]]
  IN  IF ~InView(view, 0, 2) THEN Fail(s0, "OutOfBounds")
      ELSE IF getUint16(view, 0) >= 512 THEN Fail(s0, "UnknownFlags")
      ELSE [s0 EXCEPT !.flags = getUint16(view, 0), !.offset = 2]

DecodeFlags(view) ==
  LET s0 == [offset |-> 0, flags |-> 0, result |-> NoMessage, err |-> "none",
             pos |-> [f \in Fields |-> -1]]
  IN  IF ~InView(view, 0, 2) THEN Fail(s0, "OutOfBounds")
      ELSE [s0 EXCEPT !.flags = getUint16(view, 0), !.offset = 2]

DecodeIsOn(st, view) ==
  IF st.err # "none" \/ ~HasFlag(st.flags, ON_OFF) THEN st
  ELSE IF ~InView(view, st.offset, 1) THEN Fail(st, "OutOfBounds")
  ELSE [Seen(st, "isOn") EXCEPT
          !.result.isOn = <<getUint8(view, st.offset) # 0>>,
          !.offset = @ + 1]

DecodeBrightness(st, view) ==
  IF st.err # "none" \/ ~HasFlag(st.flags, BRIGHTNESS) THEN st
  ELSE IF ~InView(view, st.offset, 1) THEN Fail(st, "OutOfBounds")
  ELSE [Seen(st, "brightness") EXCEPT
          !.result.brightness = <<getUint8(view, st.offset)>>,
          !.offset = @ + 1]

DecodeColorTemp(st, view) ==
  IF st.err # "none" \/ ~HasFlag(st.flags, COLOR_MIRED) THEN st
  ELSE IF ~InView(view, st.offset, 2) THEN Fail(st, "OutOfBounds")
  ELSE [Seen(st, "colorTemp") EXCEPT
          !.result.colorTemp = <<[mired |-> getUint16(view, st.offset)]>>,
          !.offset = @ + 2]

\* x is read and the offset moved by 2 before y is read: a throw at y leaves
\* the offset behind x
DecodeColorXY(st, view) ==
  IF st.err # "none" \/ ~HasFlag(st.flags, COLOR_XY) THEN st
  ELSE IF ~InView(view, st.offset, 2) THEN Fail(st, "OutOfBounds")
  ELSE IF ~InView(view, st.offset + 2, 2)
       THEN Fail([st EXCEPT !.offset = @ + 2], "OutOfBounds")
  ELSE [Seen(st, "colorXY") EXCEPT
          !.result.colorXY =
             <<[x |-> Rat(getUint16(view, st.offset), 65535),
                y |-> Rat(getUint16(view, st.offset + 2), 65535)]>>,
          !.offset = @ + 4]

DecodeTransitionTime(st, view) ==
  IF st.err # "none" \/ ~HasFlag(st.flags, TRANSITION_TIME) THEN st
  ELSE IF ~InView(view, st.offset, 2) THEN Fail(st, "OutOfBounds")
  ELSE [Seen(st, "transitionTime") EXCEPT
          !.result.transitionTime = <<getUint16(view, st.offset)>>,
          !.offset = @ + 2]

DecodeEffect(st, view) ==
  IF st.err # "none" \/ ~HasFlag(st.flags, EFFECT) THEN st
  ELSE IF ~InView(view, st.offset, 1) THEN Fail(st, "OutOfBounds")
  ELSE [Seen(st, "effect") EXCEPT
          !.result.effect = <<getUint8(view, st.offset)>>,
          !.offset = @ + 1]

\* the loop from colorsStart to colorsEnd in steps of 3
DecodeColors(view, colorsStart, colorCount) ==
  [i \in 1..colorCount |->
     fromScaled(ScaledFromBytes(
       SubSeq(view, colorsStart + 3 * (i - 1) + 1, colorsStart + 3 * i)))]
\* DecodeGradient without the check of the size against the end of the data
DecodeGradientNoEndCheck(st, view) ==
  IF st.err # "none" \/ ~HasFlag(st.flags, GRADIENT_COLORS) THEN st
  ELSE IF ~InView(view, st.offset, 1) THEN Fail(st, "OutOfBounds")
  ELSE LET offset == st.offset
           size   == getUint8(view, offset)
       IN  IF size < 4 THEN Fail(st, "SizeTooSmall")
           ELSE IF ~InView(view, offset + 1, 2) THEN Fail(st, "OutOfBounds")
           ELSE LET colorCount  == getUint8(view, offset + 1) \div 16
                    style       == getUint8(view, offset + 2)
                    colorsStart == offset + 5
                    colorsEnd   == colorsStart + colorCount * 3
                IN  IF colorsEnd > offset + size + 1
                    THEN Fail(st, "NotEnoughData")
                    ELSE IF colorsEnd > Len(view) THEN Fail(st, "OutOfBounds")
                    ELSE [Seen(st, "gradient") EXCEPT
                            !.result.gradient =
                               <<[style  |-> style,
                                  colors |-> DecodeColors(view, colorsStart,
                                                          colorCount)]>>,
                            !.offset = @ + size + 1]

\* DecodeGradient taking 4, the size of a block without colors, for too small
DecodeGradientMinSize(st, view) ==
  IF st.err # "none" \/ ~HasFlag(st.flags, GRADIENT_COLORS) THEN st
  ELSE IF ~InView(view, st.offset, 1) THEN Fail(st, "OutOfBounds")
  ELSE LET offset == st.offset
           size   == getUint8(view, offset)
       IN  IF size <= 4 THEN Fail(st, "SizeTooSmall")
           ELSE IF offset + size + 1 > Len(view) THEN Fail(st, "BeyondEnd")
           ELSE LET colorCount  == getUint8(view, offset + 1) \div 16
                    style       == getUint8(view, offset + 2)
                    colorsStart == offset + 5
                    colorsEnd   == colorsStart + colorCount * 3
                IN  IF colorsEnd > offset + size + 1
                    THEN Fail(st, "NotEnoughData")
                    ELSE IF colorsEnd > Len(view) THEN Fail(st, "OutOfBounds")
                    ELSE [Seen(st, "gradient") EXCEPT
                            !.result.gradient =
                               <<[style  |-> style,
                                  colors |-> DecodeColors(view, colorsStart,
                                                          colorCount)]>>,
                            !.offset = @ + size + 1]

\* DecodeGradient requiring the colors to fill the declared size exactly
DecodeGradientExactSize(st, view) ==
  IF st.err # "none" \/ ~HasFlag(st.flags, GRADIENT_COLORS) THEN st
  ELSE IF ~InView(view, st.offset, 1) THEN Fail(st, "OutOfBounds")
  ELSE LET offset == st.offset
           size   == getUint8(view, offset)
       IN  IF size < 4 THEN Fail(st, "SizeTooSmall")
           ELSE IF offset + size + 1 > Len(view) THEN Fail(st, "BeyondEnd")
           ELSE LET colorCount  == getUint8(view, offset + 1) \div 16
                    style       == getUint8(view, offset + 2)
                    colorsStart == offset + 5
                    colorsEnd   == colorsStart + colorCount * 3
                IN  IF colorsEnd # offset + size + 1
                    THEN Fail(st, "NotEnoughData")
                    ELSE IF colorsEnd > Len(view) THEN Fail(st, "OutOfBounds")
                    ELSE [Seen(st, "gradient") EXCEPT
                            !.result.gradient =
                               <<[style  |-> style,
                                  colors |-> DecodeColors(view, colorsStart,
                                                          colorCount)]>>,
                            !.offset = @ + size + 1]

DecodeGradient(st, view) ==
  IF st.err # "none" \/ ~HasFlag(st.flags, GRADIENT_COLORS) THEN st
  ELSE IF ~InView(view, st.offset, 1) THEN Fail(st, "OutOfBounds")
  ELSE LET offset == st.offset
           size   == getUint8(view, offset)
       IN  IF size < 4 THEN Fail(st, "SizeTooSmall")
           ELSE IF offset + size + 1 > Len(view) THEN Fail(st, "BeyondEnd")
           ELSE LET colorCount  == getUint8(view, offset + 1) \div 16
                    style       == getUint8(view, offset + 2)
                    colorsStart == offset + 5
                    colorsEnd   == colorsStart + colorCount * 3
                IN  IF colorsEnd > offset + size + 1
                    THEN Fail(st, "NotEnoughData")
                    ELSE IF colorsEnd > Len(view) THEN Fail(st, "OutOfBounds")
                    ELSE [Seen(st, "gradient") EXCEPT
                            !.result.gradient =
                               <<[style  |-> style,
                                  colors |-> DecodeColors(view, colorsStart,
                                                          colorCount)]>>,
                            !.offset = @ + size + 1]
\* DecodeEffectSpeed moving the cursor over two bytes
DecodeEffectSpeedWide(st, view) ==
  IF st.err # "none" \/ ~HasFlag(st.flags, EFFECT_SPEED) THEN st
  ELSE IF ~InView(view, st.offset, 1) THEN Fail(st, "OutOfBounds")
  ELSE [Seen(st, "effectSpeed") EXCEPT
          !.result.effectSpeed = <<getUint8(view, st.offset)>>,
          !.offset = @ + 2]

DecodeEffectSpeed(st, view) ==
  IF st.err # "none" \/ ~HasFlag(st.flags, EFFECT_SPEED) THEN st
  ELSE IF ~InView(view, st.offset, 1) THEN Fail(st, "OutOfBounds")
  ELSE [Seen(st, "effectSpeed") EXCEPT
          !.result.effectSpeed = <<getUint8(view, st.offset)>>,
          !.offset = @ + 1]

DecodeGradientParams(st, view) ==
  IF st.err # "none" \/ ~HasFlag(st.flags, GRADIENT_PARAMS) THEN st
  ELSE IF ~InView(view, st.offset, 1) THEN Fail(st, "OutOfBounds")
  ELSE IF ~InView(view, st.offset + 1, 1) THEN Fail(st, "OutOfBounds")
  ELSE [Seen(st, "gradientParams") EXCEPT
          !.result.gradientParams =
             <<[scale  |-> Rat(getUint8(view, st.offset), 8),
                offset |-> Rat(getUint8(view, st.offset + 1), 8)]>>,
          !.offset = @ + 2]
\* fromBytes reading the gradient group in the order of the flag bits
fromBytesByBitIndex(view) ==
  LET s0 == DecodeFlags(view)
      s1 == DecodeIsOn(s0, view)
      s2 == DecodeBrightness(s1, view)
      s3 == DecodeColorTemp(s2, view)
      s4 == DecodeColorXY(s3, view)
      s5 == DecodeTransitionTime(s4, view)
      s6 == DecodeEffect(s5, view)
      s7 == DecodeGradientParams(s6, view)
      s8 == DecodeEffectSpeed(s7, view)
      s9 == DecodeGradient(s8, view)
  IN  s9
\* fromBytes refusing a buffer that continues after the last flagged field
fromBytesExactLength(view) ==
  LET s0 == DecodeFlags(view)
      s1 == DecodeIsOn(s0, view)
      s2 == DecodeBrightness(s1, view)
      s3 == DecodeColorTemp(s2, view)
      s4 == DecodeColorXY(s3, view)
      s5 == DecodeTransitionTime(s4, view)
      s6 == DecodeEffect(s5, view)
      s7 == DecodeGradient(s6, view)
      s8 == DecodeEffectSpeed(s7, view)
      s9 == DecodeGradientParams(s8, view)
  IN  IF s9.err = "none" /\ s9.offset # Len(view) THEN Fail(s9, "TrailingData")
      ELSE s9

\* the whole of fromBytes: with err = "none" it returns result; otherwise it
\* throws err, and result (the local it was filling) is returned to nobody
fromBytes(view) ==
  LET s0 == DecodeFlags(view)
      s1 == DecodeIsOn(s0, view)
      s2 == DecodeBrightness(s1, view)
      s3 == DecodeColorTemp(s2, view)
      s4 == DecodeColorXY(s3, view)
      s5 == DecodeTransitionTime(s4, view)
      s6 == DecodeEffect(s5, view)
      s7 == DecodeGradient(s6, view)
      s8 == DecodeEffectSpeed(s7, view)
      s9 == DecodeGradientParams(s8, view)
  IN  s9

\* the class of the exception: DataView and the brightness check throw
\* RangeError, every other throw is a plain Error
ErrorClass(e) ==
  IF e \in {"OutOfBounds", "BrightnessRange"} THEN "RangeError"
  ELSE IF e = "none" THEN "none" ELSE "Error"

(***************************************************************************)
(* hexToBytes and bytesToHex.  A string is a sequence of one-character     *)
(* strings.                                                                *)
(***************************************************************************)
HexDigits ==
  <<"0", "1", "2", "3", "4", "5", "6", "7", "8", "9", "a", "b", "c", "d", "e", "f">>

UpperDigits == <<"A", "B", "C", "D", "E", "F">>

\* [0-9a-fA-F]
IsHexChar(c) ==
  \/ \E i \in 1..16 : HexDigits[i] = c
  \/ \E i \in 1..6 : UpperDigits[i] = c

\* VALID_HEX = /^(?:[0-9a-fA-F]{2})*$/
VALID_HEX(s) == Len(s) % 2 = 0 /\ \A i \in 1..Len(s) : IsHexChar(s[i])

\* the value parseInt gives one hex digit, upper or lower case
DigitValue(c) ==
  IF \E i \in 1..6 : UpperDigits[i] = c
  THEN 9 + (CHOOSE i \in 1..6 : UpperDigits[i] = c)
  ELSE (CHOOSE i \in 1..16 : HexDigits[i] = c) - 1

\* parseInt(str.substring(i * 2, i * 2 + 2), 16)
ParseByte(c1, c2) == 16 * DigitValue(c1) + DigitValue(c2)

hexToBytes(s) ==
  IF ~VALID_HEX(s) THEN [err |-> "InvalidHex", bytes |-> <<>>]
  ELSE [err   |-> "none",
        bytes |-> [i \in 1..(Len(s) \div 2) |-> ParseByte(s[2 * i - 1], s[2 * i])]]

\* byte.toString(16): no leading zero
ToString16(byte) ==
  IF byte < 16 THEN <<HexDigits[byte + 1]>>
  ELSE <<HexDigits[(byte \div 16) + 1], HexDigits[(byte % 16) + 1]>>
\* HexOfByte without the padding of a byte below 0x10
HexOfByteNoPad(byte) == ToString16(byte)

\* what the loop of bytesToHex appends for one byte
HexOfByte(byte) == (IF byte < 16 THEN <<"0">> ELSE <<>>) \o ToString16(byte)

RECURSIVE bytesToHex(_)
bytesToHex(bytes) ==
  IF bytes = <<>> THEN <<>>
  ELSE HexOfByte(Head(bytes)) \o bytesToHex(Tail(bytes))

(***************************************************************************)
(* The inputs.  A message is drawn by the set of fields it has (mask, one  *)
(* bit per field as in the flag word), a profile of values, its brightness *)
(* and its number of gradient colors.                                      *)
(***************************************************************************)
Profiles == 1..3

BrightnessValues == {0, 1, 127, 254, 255}

\* the largest numerator k with k / XYDen within the axis maximum
MaxNum(max) == (max.num * XYDen) \div max.den

\* profiles 1 and 2 stay within what the wire represents; profile 3 leaves it
ProfileColor(p, i) ==
  IF p = 3
  THEN [x |-> Rat(((i + 1) % (XYDen + 4)) - 2, XYDen),
        y |-> Rat(((3 * i) % (XYDen + 4)) - 1, XYDen)]
  ELSE [x |-> Rat((2 * i + p) % (MaxNum(SCALING_MAX_X) + 1), XYDen),
        y |-> Rat((3 * i + p) % (MaxNum(SCALING_MAX_Y) + 1), XYDen)]

ProfileMessage(p, b, n) ==
  [isOn           |-> <<p # 2>>,
   brightness     |-> <<b>>,
   colorTemp      |-> <<[mired |-> CASE p = 1 -> 4660 [] p = 2 -> 65535 [] p = 3 -> 70000]>>,
   colorXY        |-> <<CASE p = 1 -> [x |-> Rat(3, XYDen), y |-> Rat(XYDen - 1, XYDen)]
                          [] p = 2 -> [x |-> RatInt(1), y |-> RatInt(0)]
                          [] p = 3 -> [x |-> Rat(2 * XYDen + 1, XYDen), y |-> Rat(-1, XYDen)]>>,
   transitionTime |-> <<CASE p = 1 -> 4660 [] p = 2 -> 0 [] p = 3 -> -1>>,
   effect         |-> <<CASE p = 1 -> 13 [] p = 2 -> 255 [] p = 3 -> 300>>,
   effectSpeed    |-> <<CASE p = 1 -> 18 [] p = 2 -> 255 [] p = 3 -> 256>>,
   gradient       |-> <<[style  |-> CASE p = 1 -> 2 [] p = 2 -> 4 [] p = 3 -> 0,
                         colors |-> [i \in 1..n |-> ProfileColor(p, i)]]>>,
   gradientParams |-> <<CASE p = 1 -> [scale |-> Rat(204, 8), offset |-> Rat(221, 8)]
                          [] p = 2 -> [scale |-> Rat(255, 8), offset |-> RatInt(0)]
                          [] p = 3 -> [scale |-> Rat(3, 16), offset |-> RatInt(32)]>>]

FlagOf(f) ==
  CASE f = "isOn" -> ON_OFF
    [] f = "brightness" -> BRIGHTNESS
    [] f = "colorTemp" -> COLOR_MIRED
    [] f = "colorXY" -> COLOR_XY
    [] f = "transitionTime" -> TRANSITION_TIME
    [] f = "effect" -> EFFECT
    [] f = "gradientParams" -> GRADIENT_PARAMS
    [] f = "effectSpeed" -> EFFECT_SPEED
    [] f = "gradient" -> GRADIENT_COLORS

\* the message of profile p with exactly the fields of mask
MakeMessage(mask, p, b, n) ==
  LET full == ProfileMessage(p, b, n)
  IN  [f \in Fields |-> IF HasFlag(mask, FlagOf(f)) THEN full[f] ELSE undefined]

\* numbers of gradient colors whose size byte 4 + 3n no longer fits a byte
LongGradients == {84, 87, 100}

\* the field sets given gradients of every length: the gradient alone, with
\* effectSpeed, with gradientParams too, with effect before it, and all fields
GradientMasks == {256, 384, 448, 480, 511}

\* every field set, profile and brightness with a gradient of no color or one;
\* the field sets of GradientMasks with every number of colors up to
\* MaxColors, and with the long gradients
Messages ==
  { MakeMessage(mask, p, b, n) :
      mask \in 0..511, p \in Profiles, b \in BrightnessValues, n \in 0..1 }
  \cup { MakeMessage(mask, p, 127, n) :
          mask \in GradientMasks, p \in Profiles, n \in 2..MaxColors }
  \cup { MakeMessage(mask, p, 127, n) :
          mask \in {256, 384, 448, 511}, p \in Profiles, n \in LongGradients }

NoResult == [err |-> "idle"]

(***************************************************************************)
(* Spec: a message is constructed, serialized with toBytes and, when that  *)
(* returned, the bytes are parsed with fromBytes.                          *)
(***************************************************************************)
Init ==
  /\ pc = "constructed"
  /\ msg \in Messages
  /\ enc = NoResult
  /\ data = <<>>
  /\ dec = NoResult
  /\ str = <<>>
  /\ hexOut = <<>>

\* message.toBytes()
ToBytes ==
  /\ pc = "constructed"
  /\ enc' = toBytes(msg)
  /\ data' = IF enc'.err = "none" THEN enc'.array ELSE <<>>
  /\ pc' = IF enc'.err = "none" THEN "encoded" ELSE "threw"
  /\ UNCHANGED <<msg, dec, str, hexOut>>

\* HueLightUpdateMessage.fromBytes(data)
FromBytes ==
  /\ pc \in {"encoded", "received"}
  /\ dec' = fromBytes(data)
  /\ pc' = IF dec'.err = "none" THEN "decoded" ELSE "rejected"
  /\ UNCHANGED <<msg, enc, data, str, hexOut>>

Next == ToBytes \/ FromBytes

Spec == Init /\ [][Next]_vars

(***************************************************************************)
(* SpecDecode: fromBytes is handed a buffer of unconstrained origin.  The  *)
(* buffers are laid out field by field for a flag word, with a gradient    *)
(* block whose size byte and count byte are chosen freely, then cut short  *)
(* or left with two trailing bytes; and every short sequence over a few    *)
(* byte values.                                                            *)
(***************************************************************************)
WireOrder ==
  <<"isOn", "brightness", "colorTemp", "colorXY", "transitionTime", "effect",
    "gradient", "effectSpeed", "gradientParams">>

FixedSize(f) ==
  CASE f \in {"isOn", "brightness", "effect", "effectSpeed"} -> 1
    [] f \in {"colorTemp", "transitionTime", "gradientParams"} -> 2
    [] f = "colorXY" -> 4

LowFlags == {0, 1, 2, 4, 8, 16, 32, 64, 128, 256, 448, 289, 171, 25, 17, 3, 320, 384}

HighFlags == {0, 512, 65024}

GradientSizes == {0, 3, 4, 5, 7, 10, 255}

CountBytes == {0, 16, 32, 31, 240}

Min(a, b) == IF a < b THEN a ELSE b

Fill(seed, k) == IF seed = 0 THEN 0 ELSE (37 * k + seed) % 256

FieldBytes(f, size, cb, seed) ==
  IF f = "gradient"
  THEN <<size, cb, 2, 0, 0>> \o
       [i \in 1..(IF size > 4 THEN Min(size - 4, MaxPayload) ELSE 0) |-> Fill(seed, i)]
  ELSE [i \in 1..FixedSize(f) |-> Fill(seed, i + 2)]

RECURSIVE Layout(_, _, _, _, _)
Layout(i, flags, size, cb, seed) ==
  IF i > Len(WireOrder) THEN <<Fill(seed, 7), Fill(seed, 8)>>
  ELSE (IF HasFlag(flags, FlagOf(WireOrder[i]))
        THEN FieldBytes(WireOrder[i], size, cb, seed) ELSE <<>>)
       \o Layout(i + 1, flags, size, cb, seed)

Wire(flags, size, cb, seed) ==
  <<flags % 256, flags \div 256>> \o Layout(1, flags, size, cb, seed)

RawBytes == {0, 1, 4, 16, 255}

Buffers ==
  { SubSeq(Wire(lo + hi, size, cb, seed), 1,
           Min(cut, Len(Wire(lo + hi, size, cb, seed)))) :
      lo \in LowFlags, hi \in HighFlags, size \in GradientSizes,
      cb \in CountBytes, seed \in 0..1, cut \in 0..(2 + MaxPayload) }
  \cup UNION { [1..n -> RawBytes] : n \in 0..3 }

InitDecode ==
  /\ pc = "received"
  /\ data \in Buffers
  /\ msg = NoMessage
  /\ enc = NoResult
  /\ dec = NoResult
  /\ str = <<>>
  /\ hexOut = <<>>

NextDecode == FromBytes

SpecDecode == InitDecode /\ [][NextDecode]_vars

(***************************************************************************)
(* SpecHex: a string is parsed with hexToBytes and the bytes printed back  *)
(* with bytesToHex; or a byte array is printed and the string parsed back. *)
(***************************************************************************)
Chars == {"0", "9", "a", "f", "A", "F", "g", " "}

HexBytes == {0, 9, 10, 15, 16, 127, 254, 255}

Strings == UNION { [1..n -> Chars] : n \in 0..MaxHexLen }

ByteArrays == UNION { [1..n -> HexBytes] : n \in 0..(MaxHexLen \div 2) }

InitHex ==
  /\ \/ pc = "string" /\ str \in Strings /\ data = <<>>
     \/ pc = "bytes" /\ str = <<>> /\ data \in ByteArrays
  /\ msg = NoMessage
  /\ enc = NoResult
  /\ dec = NoResult
  /\ hexOut = <<>>

\* hexToBytes(str), of the given string or of the one just printed
HexToBytes ==
  /\ pc \in {"string", "printed"}
  /\ dec' = hexToBytes(str)
  /\ pc' = IF dec'.err # "none" THEN "invalid"
           ELSE IF pc = "string" THEN "parsed" ELSE "reparsed"
  /\ UNCHANGED <<msg, enc, data, str, hexOut>>

\* bytesToHex(bytes), of the given bytes or of the ones just parsed
BytesToHex ==
  /\ pc \in {"bytes", "parsed"}
  /\ IF pc = "bytes"
     THEN str' = bytesToHex(data) /\ hexOut' = hexOut
     ELSE hexOut' = bytesToHex(dec.bytes) /\ str' = str
  /\ pc' = IF pc = "bytes" THEN "printed" ELSE "reprinted"
  /\ UNCHANGED <<msg, enc, data, dec>>

NextHex == HexToBytes \/ BytesToHex

SpecHex == InitHex /\ [][NextHex]_vars

(***************************************************************************)
(* Properties.  What the claims need beyond the program: the values the    *)
(* wire can carry, and the distance of two fractions.                      *)
(***************************************************************************)
\* |a - b|
AbsDiff(a, b) ==
  LET g == GCD(a.den, b.den)
  IN  Rat(Abs(a.num * (b.den \div g) - b.num * (a.den \div g)),
          (a.den \div g) * b.den)

\* |a - b| <= step, for step > 0
WithinStep(a, b, step) ==
  LET q == RatDiv(AbsDiff(a, b), step) IN q.num <= q.den

InRange(v, lo, hi) == RatLeq(lo, v) /\ RatLeq(v, hi)

\* a 4-bit count: the high nibble of the byte after the gradient size byte
MaxWireColors == 15

\* one step of the 16-bit fraction of colorXY
StepXY == Rat(1, 65535)

\* |a - b| <= max / 4095, one step of a 12-bit scaled axis, for doubles a and
\* b in 0..1: exactly, on the three numbers brought to one exponent
WithinScaledStep(a, b, max) ==
  /\ a.cls = "finite" /\ b.cls = "finite"
  /\ LET ea == IF IsZero(a) THEN max.e ELSE a.e
         eb == IF IsZero(b) THEN max.e ELSE b.e
         e0 == IF ea < eb THEN (IF ea < max.e THEN ea ELSE max.e)
               ELSE (IF eb < max.e THEN eb ELSE max.e)
         na == BigShl(a.m, ea - e0)
         nb == BigShl(b.m, eb - e0)
         nm == BigShl(max.m, max.e - e0)
         df == IF BigLess(na, nb) THEN BigSub(nb, na) ELSE BigSub(na, nb)
     IN  ~BigLess(nm, BigSub(BigShl(df, 12), df))

\* every set field of m has a value the wire carries
Representable(m) ==
  /\ m.brightness # undefined => m.brightness[1] \in 1..254
  /\ m.colorTemp # undefined => m.colorTemp[1].mired \in 0..65535
  /\ m.transitionTime # undefined => m.transitionTime[1] \in 0..65535
  /\ m.effect # undefined => m.effect[1] \in 0..255
  /\ m.effectSpeed # undefined => m.effectSpeed[1] \in 0..255
  /\ m.colorXY # undefined =>
       /\ InRange(m.colorXY[1].x, RatInt(0), RatInt(1))
       /\ InRange(m.colorXY[1].y, RatInt(0), RatInt(1))
  /\ m.gradient # undefined =>
       /\ Len(m.gradient[1].colors) <= MaxWireColors
       /\ m.gradient[1].style \in 0..255
       /\ \A i \in 1..Len(m.gradient[1].colors) :
            /\ InRange(m.gradient[1].colors[i].x, RatInt(0), SCALING_MAX_X)
            /\ InRange(m.gradient[1].colors[i].y, RatInt(0), SCALING_MAX_Y)
  /\ m.gradientParams # undefined =>
       /\ 8 % m.gradientParams[1].scale.den = 0
       /\ 8 % m.gradientParams[1].offset.den = 0
       /\ InRange(m.gradientParams[1].scale, RatInt(0), Rat(255, 8))
       /\ InRange(m.gradientParams[1].offset, RatInt(0), Rat(255, 8))

\* r has the fields of m, with the same values but for the quantized colors
SameMessage(m, r) ==
  /\ \A f \in Fields : (m[f] = undefined) <=> (r[f] = undefined)
  /\ r.isOn = m.isOn
  /\ r.brightness = m.brightness
  /\ r.colorTemp = m.colorTemp
  /\ r.transitionTime = m.transitionTime
  /\ r.effect = m.effect
  /\ r.effectSpeed = m.effectSpeed
  /\ m.colorXY # undefined =>
       /\ WithinStep(r.colorXY[1].x, m.colorXY[1].x, StepXY)
       /\ WithinStep(r.colorXY[1].y, m.colorXY[1].y, StepXY)
  /\ m.gradient # undefined =>
       /\ r.gradient[1].style = m.gradient[1].style
       /\ Len(r.gradient[1].colors) = Len(m.gradient[1].colors)
       /\ \A i \in 1..Len(m.gradient[1].colors) :
            /\ WithinScaledStep(AsDouble(r.gradient[1].colors[i].x),
                                AsDouble(m.gradient[1].colors[i].x),
                                SCALING_MAX_X_F64)
            /\ WithinScaledStep(AsDouble(r.gradient[1].colors[i].y),
                                AsDouble(m.gradient[1].colors[i].y),
                                SCALING_MAX_Y_F64)
  /\ m.gradientParams # undefined =>
       /\ RatEq(r.gradientParams[1].scale, m.gradientParams[1].scale)
       /\ RatEq(r.gradientParams[1].offset, m.gradientParams[1].offset)

Bit(w, k) == (w \div (2 ^ k)) % 2

\* the flag word the buffer starts with, little-endian
FlagWord(bytes) == bytes[1] + 256 * bytes[2]

\* the bit the flag word gives each field
BitOfField ==
  [isOn |-> 0, brightness |-> 1, colorTemp |-> 2, colorXY |-> 3,
   transitionTime |-> 4, effect |-> 5, gradientParams |-> 6, effectSpeed |-> 7,
   gradient |-> 8]

ReadmeMessage ==
  [NoMessage EXCEPT !.isOn = <<TRUE>>, !.brightness = <<127>>]

\* C2: the first two bytes toBytes returns are the little-endian flag word:
\* bit k is set exactly when the field of bit k is present, bits 9..15 are 0;
\* the empty message gives 00 00, and {isOn: true, brightness: 127} gives
\* 03 00 01 7f.
C2_FlagWord ==
  pc \in {"encoded", "decoded", "rejected"} =>
    /\ Len(data) >= 2
    /\ data[1] \in 0..255 /\ data[2] \in 0..255
    /\ \A f \in Fields : (Bit(FlagWord(data), BitOfField[f]) = 1) <=> (msg[f] # undefined)
    /\ \A k \in 9..15 : Bit(FlagWord(data), k) = 0
    /\ msg = NoMessage => data = <<0, 0>>
    /\ msg = ReadmeMessage => data = <<3, 0, 1, 127>>

\* a message with the gradient (bit 8, the second byte of the word) encoded
C2_Witness ==
  /\ pc = "encoded"
  /\ msg.gradient # undefined /\ msg.isOn # undefined /\ msg.effect = undefined
  /\ data[2] = 1

\* the order of the fields on the wire
FieldOrder ==
  [isOn |-> 1, brightness |-> 2, colorTemp |-> 3, colorXY |-> 4,
   transitionTime |-> 5, effect |-> 6, gradient |-> 7, effectSpeed |-> 8,
   gradientParams |-> 9]

\* the offsets in pos, of the fields present, rise with the order of the wire
InWireOrder(present, pos) ==
  \A f, g \in present :
    FieldOrder[f] < FieldOrder[g] => 2 <= pos[f] /\ pos[f] < pos[g]

Present(m) == { f \in Fields : m[f] # undefined }

\* C3: toBytes writes, and fromBytes reads, the present fields after the flag
\* word in the order isOn, brightness, colorTemp, colorXY, transitionTime,
\* effect, gradient, effectSpeed, gradientParams, each at a strictly higher
\* offset than the ones before it, and both at the same offsets.
C3_FieldOrder ==
  /\ pc \in {"encoded", "decoded", "rejected"} =>
       /\ InWireOrder(Present(msg), enc.pos)
       /\ \A f \in Fields \ Present(msg) : enc.pos[f] = -1
       /\ msg.effectSpeed # undefined =>
            data[enc.pos["effectSpeed"] + 1] = msg.effectSpeed[1] % 256
       /\ msg.gradient # undefined =>
            data[enc.pos["gradient"] + 1] = (4 + 3 * Len(msg.gradient[1].colors)) % 256
  /\ pc = "decoded" =>
       /\ InWireOrder(Present(dec.result), dec.pos)
       /\ (msg.gradient = undefined \/ 4 + 3 * Len(msg.gradient[1].colors) <= 255)
            => dec.pos = enc.pos

\* gradient, effectSpeed and gradientParams all present and decoded: the
\* field of bit 8 lies before that of bit 7, and that before the one of bit 6
C3_Witness ==
  /\ pc = "decoded"
  /\ {"gradient", "effectSpeed", "gradientParams", "effect"} \subseteq Present(msg)
  /\ Len(msg.gradient[1].colors) = 2
  /\ dec.pos["gradient"] < dec.pos["effectSpeed"]
  /\ dec.pos["effectSpeed"] < dec.pos["gradientParams"]

\* the length the claim computes from the fields present
ClaimedLength(m) ==
  2 + Cardinality(Present(m) \cap {"isOn", "brightness", "effect", "effectSpeed"})
    + 2 * Cardinality(Present(m) \cap {"colorTemp", "transitionTime", "gradientParams"})
    + (IF "colorXY" \in Present(m) THEN 4 ELSE 0)
    + (IF "gradient" \in Present(m) THEN 5 + 3 * Len(m.gradient[1].colors) ELSE 0)

\* C4: with brightness absent or in 1..254, toBytes returns a buffer of
\* exactly 2 + 1 per isOn/brightness/effect/effectSpeed + 2 per colorTemp/
\* transitionTime/gradientParams + 4 for colorXY + 5 + 3n for a gradient of n
\* colors, its final write offset is that length, and the precomputed-length
\* error is never thrown.
C4_Length ==
  pc # "constructed" =>
    /\ enc.err # "Invariant"
    /\ (msg.brightness = undefined \/ msg.brightness[1] \in 1..254) =>
         /\ enc.err = "none"
         /\ Len(enc.array) = ClaimedLength(msg)
         /\ enc.offset = ClaimedLength(msg)

\* every field present with the longest gradient of the model
C4_Witness ==
  /\ pc = "encoded"
  /\ Present(msg) = Fields
  /\ Len(msg.gradient[1].colors) = MaxColors
  /\ Len(data) = 21 + 3 * MaxColors

\* C5: toBytes throws a RangeError, and returns no bytes, exactly when
\* brightness is present and outside 1..254; no other field and no value of
\* another field makes it throw.
C5_BrightnessRange ==
  pc # "constructed" =>
    /\ (ErrorClass(enc.err) = "RangeError") <=>
         (msg.brightness # undefined /\ msg.brightness[1] \notin 1..254)
    /\ enc.err # "none" <=> pc = "threw"
    /\ pc = "threw" => data = <<>>
    /\ (msg.brightness # undefined /\ msg.brightness[1] \in {0, 255}) => pc = "threw"
    /\ (msg.brightness # undefined /\ msg.brightness[1] \in {1, 254}) => pc # "threw"

\* brightness 255 rejected although every other field is present
C5_Witness ==
  /\ pc = "threw"
  /\ enc.err = "BrightnessRange"
  /\ msg.brightness = <<255>>
  /\ Present(msg) = Fields

(***************************************************************************)
(* Properties of fromBytes on arbitrary buffers (SpecDecode).              *)
(***************************************************************************)
FlaggedFields(bytes) == { f \in Fields : Bit(FlagWord(bytes), BitOfField[f]) = 1 }

\* the bytes of a field other than the gradient
FieldSize ==
  [isOn |-> 1, brightness |-> 1, colorTemp |-> 2, colorXY |-> 4,
   transitionTime |-> 2, effect |-> 1, effectSpeed |-> 1, gradientParams |-> 2]

RECURSIVE SumSizes(_)
SumSizes(fs) ==
  IF fs = {} THEN 0
  ELSE LET f == CHOOSE g \in fs : TRUE IN FieldSize[f] + SumSizes(fs \ {f})

\* where the flag word puts the gradient size byte: after the flag word and
\* the flagged fields that come before the gradient
SizeByteAt(bytes) ==
  2 + SumSizes({ f \in FlaggedFields(bytes) : FieldOrder[f] < FieldOrder["gradient"] })

GradientFlagged(bytes) == Len(bytes) >= 2 /\ "gradient" \in FlaggedFields(bytes)

\* the gradient flag is set and the buffer reaches the size byte
HasSizeByte(bytes) == GradientFlagged(bytes) /\ Len(bytes) > SizeByteAt(bytes)

SizeByte(bytes) == bytes[SizeByteAt(bytes) + 1]

\* the high nibble of the byte after the size byte
CountNibble(bytes) == bytes[SizeByteAt(bytes) + 2] \div 16

\* the bytes the flag word requires: the flag word, the flagged fields and,
\* for a gradient, the size byte and the size it declares
RequiredLength(bytes) ==
  2 + SumSizes(FlaggedFields(bytes) \ {"gradient"})
    + (IF "gradient" \in FlaggedFields(bytes)
       THEN 1 + (IF Len(bytes) > SizeByteAt(bytes) THEN SizeByte(bytes) ELSE 0)
       ELSE 0)

TooShort(bytes) == Len(bytes) < 2 \/ Len(bytes) < RequiredLength(bytes)

FormatErrors == {"SizeTooSmall", "BeyondEnd", "NotEnoughData"}

\* C6 as stated: every buffer shorter than its flag word requires is
\* rejected with a length error.
C6_Original ==
  (pc # "received" /\ TooShort(data)) =>
    (pc = "rejected" /\ dec.err = "OutOfBounds")

\* C6: every buffer shorter than its flag word requires is rejected and no
\* message is returned.  The error is the length error of the DataView when
\* the buffer does not reach the gradient size byte.  When it does, the
\* gradient's checks decide, in their order: size too small for a size byte
\* below 4; else extends beyond end of data when the buffer ends inside the
\* declared block; else not enough data when the colors of the count nibble
\* exceed the declared size; else the length error of a later field.
C6_Truncated ==
  (pc # "received" /\ TooShort(data)) =>
    /\ pc = "rejected"
    /\ dec.err =
         IF ~HasSizeByte(data) THEN "OutOfBounds"
         ELSE IF SizeByte(data) < 4 THEN "SizeTooSmall"
         ELSE IF Len(data) < SizeByteAt(data) + SizeByte(data) + 1 THEN "BeyondEnd"
         ELSE IF 5 + 3 * CountNibble(data) > SizeByte(data) + 1 THEN "NotEnoughData"
         ELSE "OutOfBounds"

\* a buffer cut inside a gradient block that declares 7 bytes
C6_Witness ==
  /\ pc = "rejected"
  /\ TooShort(data)
  /\ HasSizeByte(data)
  /\ SizeByte(data) = 7
  /\ Len(data) = SizeByteAt(data) + 5
  /\ dec.err = "BeyondEnd"

\* the three cases of the claim, for a buffer that reaches the size byte
GradientCase1(bytes) == SizeByte(bytes) < 4

GradientCase2(bytes) == SizeByteAt(bytes) + SizeByte(bytes) + 1 > Len(bytes)

GradientCase3(bytes) ==
  /\ Len(bytes) > SizeByteAt(bytes) + 1
  /\ SizeByteAt(bytes) + 5 + 3 * CountNibble(bytes)
       > SizeByteAt(bytes) + SizeByte(bytes) + 1

\* C7: with the gradient flag set and the size byte in the buffer, fromBytes
\* fails with a format error exactly when the size byte is below 4, or
\* offset + size + 1 exceeds the buffer length, or the 5 + 3 * colorCount
\* bytes of the color block extend past offset + size + 1; without the
\* gradient flag it never does.
C7_GradientErrors ==
  pc # "received" =>
    /\ dec.err \in FormatErrors => HasSizeByte(data)
    /\ HasSizeByte(data) =>
         /\ (dec.err \in FormatErrors) <=>
              (GradientCase1(data) \/ GradientCase2(data) \/ GradientCase3(data))
         /\ GradientCase1(data) => dec.err = "SizeTooSmall"
         /\ (~GradientCase1(data) /\ GradientCase2(data)) => dec.err = "BeyondEnd"
         /\ (~GradientCase1(data) /\ ~GradientCase2(data) /\ GradientCase3(data))
              => dec.err = "NotEnoughData"

\* a complete block of size 4 whose count nibble announces one color
C7_Witness ==
  /\ pc = "rejected"
  /\ HasSizeByte(data)
  /\ SizeByte(data) = 4
  /\ ~GradientCase2(data)
  /\ CountNibble(data) = 1
  /\ dec.err = "NotEnoughData"

\* C8 as stated: an accepted gradient block has size = 4 + 3 * colorCount.
C8_Original ==
  (pc = "decoded" /\ GradientFlagged(data)) =>
    SizeByte(data) = 4 + 3 * CountNibble(data)

\* C8: the size byte bounds the color block from above only.  An accepted
\* gradient block has size >= 4 + 3 * colorCount and yields colorCount
\* colors; a block with size < 4 + 3 * colorCount is rejected with a format
\* error; a block with a larger size is accepted when the buffer holds it,
\* the bytes after the colors up to offset + size + 1 being skipped.
C8_SizeBoundsColors ==
  pc # "received" =>
    /\ (pc = "decoded" /\ GradientFlagged(data)) =>
         /\ SizeByte(data) >= 4 + 3 * CountNibble(data)
         /\ Len(dec.result.gradient[1].colors) = CountNibble(data)
         /\ dec.pos["gradient"] = SizeByteAt(data)
         /\ dec.offset >= SizeByteAt(data) + SizeByte(data) + 1
    /\ (HasSizeByte(data) /\ Len(data) > SizeByteAt(data) + 1
          /\ SizeByte(data) < 4 + 3 * CountNibble(data)) =>
         (pc = "rejected" /\ dec.err \in FormatErrors)
    /\ (GradientFlagged(data) /\ ~TooShort(data) /\ SizeByte(data) >= 4
          /\ SizeByte(data) > 4 + 3 * CountNibble(data)) =>
         pc = "decoded"

\* accepted: size 7 with no color, the three bytes after the header skipped
C8_Witness ==
  /\ pc = "decoded"
  /\ GradientFlagged(data)
  /\ SizeByte(data) = 7
  /\ CountNibble(data) = 0
  /\ dec.result.gradient[1].colors = <<>>
  /\ dec.result.effectSpeed # undefined
  /\ dec.pos["effectSpeed"] = dec.pos["gradient"] + 8

\* the buffer with bits 9..15 of its flag word cleared
ClearUnassigned(bytes) ==
  IF Len(bytes) < 2 THEN bytes ELSE [bytes EXCEPT ![2] = bytes[2] % 2]

\* C9: bits 9..15 of the flag word are ignored: fromBytes fails or succeeds
\* as on the buffer with these bits cleared, returns the same message and
\* ends at the same offset; the fields of the message are those of the set
\* bits 0..8.
C9_UnassignedBits ==
  pc # "received" =>
    LET clean == fromBytes(ClearUnassigned(data))
    IN  /\ dec.err = clean.err
        /\ dec.err = "none" =>
             /\ dec.result = clean.result
             /\ dec.offset = clean.offset
             /\ Present(dec.result) = FlaggedFields(data)
             /\ dec.offset = RequiredLength(data)

\* all of the bits 9..15 set, and a gradient and an effect speed decoded
C9_Witness ==
  /\ pc = "decoded"
  /\ data[2] = 255
  /\ Present(dec.result) = {"gradient", "effectSpeed"}
  /\ dec.offset = Len(data)

(***************************************************************************)
(* Properties of the hex helpers (SpecHex).                                *)
(***************************************************************************)
LowerHexChars ==
  {"0", "1", "2", "3", "4", "5", "6", "7", "8", "9", "a", "b", "c", "d", "e", "f"}

UpperHexChars == {"A", "B", "C", "D", "E", "F"}

\* lowercase(s), of a string of hex digits
LowerChar(c) ==
  CASE c = "A" -> "a" [] c = "B" -> "b" [] c = "C" -> "c" [] c = "D" -> "d"
    [] c = "E" -> "e" [] c = "F" -> "f" [] OTHER -> c

Lowercase(s) == [i \in 1..Len(s) |-> LowerChar(s[i])]

\* even length, over 0-9, a-f, A-F
EvenHex(s) ==
  Len(s) % 2 = 0 /\ \A i \in 1..Len(s) : s[i] \in LowerHexChars \cup UpperHexChars

\* C10: bytesToHex emits two lowercase hex digits per byte; hexToBytes of it
\* gives the bytes back; hexToBytes rejects exactly the strings of odd
\* length or with a character outside 0-9, a-f, A-F; and bytesToHex of the
\* bytes of an accepted string is the string in lower case.
C10_HexRoundTrip ==
  /\ pc \in {"printed", "reparsed"} =>
       /\ Len(str) = 2 * Len(data)
       /\ \A i \in 1..Len(str) : str[i] \in LowerHexChars
  /\ pc = "reparsed" => dec.bytes = data
  /\ (pc = "invalid") => ~EvenHex(str)
  /\ pc \in {"parsed", "reprinted", "reparsed"} => (EvenHex(str) /\ dec.err = "none")
  /\ pc \in {"parsed", "reprinted"} =>
       /\ Len(dec.bytes) * 2 = Len(str)
       /\ \A i \in 1..Len(dec.bytes) : dec.bytes[i] \in 0..255
  /\ pc = "reprinted" => hexOut = Lowercase(str)

\* a string with upper-case digits and a byte below 0x10, printed back
C10_Witness ==
  /\ pc = "reprinted"
  /\ str = <<"A", "f", "0", "9">>
  /\ dec.bytes = <<175, 9>>
  /\ hexOut = <<"a", "f", "0", "9">>

(***************************************************************************)
(* Properties of the gradient block and of gradientParams (Spec).          *)
(***************************************************************************)
\* the three bytes [x & 0xff][(x >> 8 & 0xf) | (y & 0xf) << 4][y >> 4 & 0xff]
PackedBytes(x, y) ==
  << x % 256, ((x \div 256) % 16) + 16 * (y % 16), (y \div 16) % 256 >>

\* the bytes of the buffer from 0-based offset off, n of them
Slice(bytes, off, n) == SubSeq(bytes, off + 1, off + n)

\* C11: a gradient of n <= 15 colors is written as the size byte 4 + 3n, the
\* byte n << 4, the style byte, two zero bytes and, for each color in list
\* order, the three packed bytes of its scaled form: 5 + 3n bytes in all.
C11_GradientBlock ==
  (pc \in {"encoded", "decoded", "rejected"} /\ msg.gradient # undefined
     /\ Len(msg.gradient[1].colors) <= MaxWireColors) =>
    LET g   == msg.gradient[1]
        n   == Len(g.colors)
        at  == enc.pos["gradient"]
        end == IF msg.effectSpeed # undefined THEN enc.pos["effectSpeed"]
               ELSE IF msg.gradientParams # undefined THEN enc.pos["gradientParams"]
               ELSE Len(data)
    IN  /\ Slice(data, at, 5) = <<4 + 3 * n, 16 * n, g.style % 256, 0, 0>>
        /\ data[at + 2] % 16 = 0
        /\ \A i \in 1..n :
             LET c == toScaled(g.colors[i])
             IN  Slice(data, at + 5 + 3 * (i - 1), 3) =
                   PackedBytes(IntOf(c.x), IntOf(c.y))
        /\ end - at = 5 + 3 * n

\* fifteen colors, followed by the effect speed and the gradient parameters
C11_Witness ==
  /\ pc = "encoded"
  /\ msg.gradient # undefined /\ msg.effectSpeed # undefined
  /\ msg.gradientParams # undefined
  /\ Len(msg.gradient[1].colors) = MaxWireColors
  /\ data[enc.pos["gradient"] + 1] = 49
  /\ data[enc.pos["gradient"] + 2] = 240
  /\ Slice(data, enc.pos["gradient"] + 5, 3) # <<0, 0, 0>>

\* v is a multiple of 0.125
IsEighth(v) == (8 * v.num) % v.den = 0

\* C12: gradientParams is written as the bytes trunc(scale * 8) and
\* trunc(offset * 8) and read back as byte / 8; a multiple of 0.125 in
\* [0, 31.875] is returned unchanged, any other value in that range is
\* returned as the next lower multiple of 0.125.
C12_GradientParams ==
  (pc \in {"encoded", "decoded", "rejected"} /\ msg.gradientParams # undefined) =>
    LET at == enc.pos["gradientParams"]
        gp == msg.gradientParams[1]
        Written(v, byte) == byte = Trunc(RatMul(v, RatInt(8))) % 256
        Read(v, byte, d) ==
          /\ RatEq(d, Rat(byte, 8))
          /\ (RatLeq(RatInt(0), v) /\ RatLeq(v, Rat(255, 8)) /\ IsEighth(v))
               => RatEq(d, v)
          /\ (RatLeq(RatInt(0), v) /\ RatLeq(v, Rat(255, 8)) /\ ~IsEighth(v))
               => /\ IsEighth(d) /\ RatLeq(d, v) /\ ~RatEq(d, v)
                  /\ ~RatLeq(Rat(d.num * 8 + d.den, d.den * 8), v)
    IN  /\ Len(data) = at + 2
        /\ Written(gp.scale, data[at + 1])
        /\ Written(gp.offset, data[at + 2])
        /\ (pc = "decoded" /\ dec.pos["gradientParams"] = at) =>
             /\ Read(gp.scale, data[at + 1], dec.result.gradientParams[1].scale)
             /\ Read(gp.offset, data[at + 2], dec.result.gradientParams[1].offset)
        /\ (pc = "decoded" /\ dec.pos["gradientParams"] # at) =>
             /\ msg.gradient # undefined
             /\ 4 + 3 * Len(msg.gradient[1].colors) > 255

\* scale 0.1875 is written as the byte 1 and read back as 0.125
C12_Witness ==
  /\ pc = "decoded" /\ msg.gradientParams # undefined
  /\ RatEq(msg.gradientParams[1].scale, Rat(3, 16))
  /\ data[enc.pos["gradientParams"] + 1] = 1
  /\ RatEq(dec.result.gradientParams[1].scale, Rat(1, 8))

(***************************************************************************)
(* SpecScaledBytes: a scaled color is packed with toBytes and the bytes    *)
(* unpacked with fromBytes; or a byte sequence is unpacked and the color   *)
(* packed again.                                                           *)
(***************************************************************************)
ScaledValues ==
  {-1, 0, 1, 15, 16, 255, 256, 291, 1929, 2748, 3567, 3840, 4095,
   4096, 4097, 4387, 8191, 65535}

ColorByteValues == {0, 1, 15, 16, 35, 171, 193, 240, 255}

ScaledColors ==
  [x : { F64OfInt(n) : n \in ScaledValues }, y : { F64OfInt(n) : n \in ScaledValues }]

ColorBuffers ==
  [1..3 -> ColorByteValues] \cup UNION { [1..n -> {0, 255}] : n \in 0..MaxColorBytes }

InitScaledBytes ==
  /\ \/ pc = "scaled" /\ msg \in ScaledColors /\ data = <<>>
     \/ pc = "bytes" /\ msg = NoMessage /\ data \in ColorBuffers
  /\ enc = NoResult
  /\ dec = NoResult
  /\ str = <<>>
  /\ hexOut = <<>>

\* scaled.toBytes(), of the given color or of the one just unpacked
XYScaledToBytes ==
  /\ pc \in {"scaled", "unpacked"}
  /\ enc' = [err |-> "none",
             array |-> ScaledToBytes(IF pc = "scaled" THEN msg ELSE dec.color[1])]
  /\ data' = IF pc = "scaled" THEN enc'.array ELSE data
  /\ pc' = IF pc = "scaled" THEN "packed" ELSE "repacked"
  /\ UNCHANGED <<msg, dec, str, hexOut>>

\* HueLightColorXYScaled.fromBytes(data), of the given bytes or of the ones
\* just packed
XYScaledFromBytesCall ==
  /\ pc \in {"bytes", "packed"}
  /\ dec' = XYScaledFromBytes(data)
  /\ pc' = IF dec'.err # "none" THEN "refused"
           ELSE IF pc = "bytes" THEN "unpacked" ELSE "read"
  /\ UNCHANGED <<msg, enc, data, str, hexOut>>

NextScaledBytes == XYScaledToBytes \/ XYScaledFromBytesCall

SpecScaledBytes == InitScaledBytes /\ [][NextScaledBytes]_vars

\* C13: a scaled color is packed as PackedBytes(x, y); packing then unpacking
\* returns x and y reduced to their low 12 bits (so x and y themselves when
\* they lie in 0..4095); unpacking then packing returns every 3-byte
\* sequence unchanged; fromBytes fails exactly when the input is not 3 bytes.
C13_ScaledPacking ==
  /\ pc \in {"packed", "read"} =>
       /\ Len(data) = 3
       /\ data = PackedBytes(IntOf(msg.x), IntOf(msg.y))
       /\ \A i \in 1..3 : data[i] \in 0..255
  /\ pc = "read" =>
       /\ IntOf(dec.color[1].x) = IntOf(msg.x) % 4096
       /\ IntOf(dec.color[1].y) = IntOf(msg.y) % 4096
       /\ (IntOf(msg.x) \in 0..4095 /\ IntOf(msg.y) \in 0..4095) => dec.color[1] = msg
  /\ pc = "repacked" => enc.array = data
  /\ pc = "refused" => Len(data) # 3 /\ dec.color = undefined
  /\ pc \in {"unpacked", "read", "repacked"} => Len(data) = 3

\* x = 0x1123 has a bit above bit 11: it is packed and read back as 0x123
C13_Witness ==
  /\ pc = "read"
  /\ msg = [x |-> F64OfInt(4387), y |-> F64OfInt(2748)]
  /\ data = <<35, 193, 171>>
  /\ dec.color[1] = [x |-> F64OfInt(291), y |-> F64OfInt(2748)]

\* C16: a gradient of n >= 16 colors is not refused by toBytes: all n colors
\* are written, behind the count byte (n << 4) mod 256 and the size byte
\* (4 + 3n) mod 256, and fromBytes either fails on these bytes or returns a
\* gradient with a number of colors other than n.
C16_LongGradient ==
  (msg.gradient # undefined /\ Len(msg.gradient[1].colors) >= 16) =>
    LET n  == Len(msg.gradient[1].colors)
        at == enc.pos["gradient"]
    IN  /\ pc = "threw" => enc.err = "BrightnessRange"
        /\ pc \in {"encoded", "decoded", "rejected"} =>
             /\ enc.err = "none"
             /\ Len(data) = ClaimedLength(msg)
             /\ data[at + 1] = (4 + 3 * n) % 256
             /\ data[at + 2] = (16 * n) % 256
             /\ \A i \in 1..n :
                  LET c == toScaled(msg.gradient[1].colors[i])
                  IN  Slice(data, at + 5 + 3 * (i - 1), 3) =
                        PackedBytes(IntOf(c.x), IntOf(c.y))
        /\ pc = "decoded" =>
             /\ Len(dec.result.gradient[1].colors) # n
             /\ ~SameMessage(msg, dec.result)

\* sixteen colors: the count byte is 0 and fromBytes returns no colors
C16_Witness ==
  /\ pc = "decoded"
  /\ msg.gradient # undefined /\ Len(msg.gradient[1].colors) = 16
  /\ data[enc.pos["gradient"] + 1] = 52
  /\ data[enc.pos["gradient"] + 2] = 0
  /\ dec.result.gradient[1].colors = <<>>

(***************************************************************************)
(* Properties of the bytes after the last flagged field (SpecDecode).      *)
(***************************************************************************)
\* byte sequences appended to an accepted buffer
Tails == {<<0>>, <<255>>, <<1, 4>>, <<255, 255, 16>>}

\* C17: when fromBytes accepts a buffer it has read nothing after the last
\* flagged field: the buffer cut at the final cursor, and the buffer followed
\* by any further bytes, are accepted too and yield the same message.
C17_TrailingBytes ==
  pc = "decoded" =>
    /\ dec.offset <= Len(data)
    /\ LET r == fromBytes(SubSeq(data, 1, dec.offset))
       IN  r.err = "none" /\ r.result = dec.result /\ r.offset = dec.offset
    /\ \A t \in Tails :
         LET r == fromBytes(data \o t)
         IN  r.err = "none" /\ r.result = dec.result /\ r.offset = dec.offset

\* a buffer with bytes after its last field: it decodes to the message of its
\* prefix, and encoding that message returns the prefix, not the buffer
C17_Witness ==
  /\ pc = "decoded"
  /\ dec.offset < Len(data)
  /\ dec.result.effectSpeed # undefined
  /\ dec.result.colorXY = undefined /\ dec.result.gradient = undefined
  /\ fromBytes(SubSeq(data, 1, dec.offset)).result = dec.result
  /\ toBytes(dec.result).err = "none"
  /\ toBytes(dec.result).array = SubSeq(data, 1, dec.offset)
  /\ toBytes(dec.result).array # data

(***************************************************************************)
(* SpecWalk: fromBytes followed one block at a time.  pc names the block   *)
(* about to run (the read of the flag word, then the nine "if (flags &     *)
(* ...)" blocks in program order); dec holds the locals offset, flags and  *)
(* result.                                                                 *)
(***************************************************************************)
InitWalk ==
  /\ pc = "flags"
  /\ data \in Buffers
  /\ dec = [offset |-> 0, flags |-> 0, result |-> NoMessage, err |-> "none",
            pos |-> [f \in Fields |-> -1]]
  /\ msg = NoMessage
  /\ enc = NoResult
  /\ str = <<>>
  /\ hexOut = <<>>

\* the block after that of field f, or the return
AfterField(f) ==
  IF FieldOrder[f] = Len(WireOrder) THEN "decoded" ELSE WireOrder[FieldOrder[f] + 1]

\* reading the flag word; like every block, it runs to its end or throws
WalkFlags ==
  /\ pc = "flags"
  /\ dec' = DecodeFlags(data)
  /\ pc' = IF dec'.err # "none" THEN "rejected" ELSE WireOrder[1]
  /\ UNCHANGED <<msg, enc, data, str, hexOut>>

WalkIsOn ==
  /\ pc = "isOn"
  /\ dec' = DecodeIsOn(dec, data)
  /\ pc' = IF dec'.err # "none" THEN "rejected" ELSE AfterField("isOn")
  /\ UNCHANGED <<msg, enc, data, str, hexOut>>

WalkBrightness ==
  /\ pc = "brightness"
  /\ dec' = DecodeBrightness(dec, data)
  /\ pc' = IF dec'.err # "none" THEN "rejected" ELSE AfterField("brightness")
  /\ UNCHANGED <<msg, enc, data, str, hexOut>>

WalkColorTemp ==
  /\ pc = "colorTemp"
  /\ dec' = DecodeColorTemp(dec, data)
  /\ pc' = IF dec'.err # "none" THEN "rejected" ELSE AfterField("colorTemp")
  /\ UNCHANGED <<msg, enc, data, str, hexOut>>

WalkColorXY ==
  /\ pc = "colorXY"
  /\ dec' = DecodeColorXY(dec, data)
  /\ pc' = IF dec'.err # "none" THEN "rejected" ELSE AfterField("colorXY")
  /\ UNCHANGED <<msg, enc, data, str, hexOut>>

WalkTransitionTime ==
  /\ pc = "transitionTime"
  /\ dec' = DecodeTransitionTime(dec, data)
  /\ pc' = IF dec'.err # "none" THEN "rejected" ELSE AfterField("transitionTime")
  /\ UNCHANGED <<msg, enc, data, str, hexOut>>

WalkEffect ==
  /\ pc = "effect"
  /\ dec' = DecodeEffect(dec, data)
  /\ pc' = IF dec'.err # "none" THEN "rejected" ELSE AfterField("effect")
  /\ UNCHANGED <<msg, enc, data, str, hexOut>>

WalkGradient ==
  /\ pc = "gradient"
  /\ dec' = DecodeGradient(dec, data)
  /\ pc' = IF dec'.err # "none" THEN "rejected" ELSE AfterField("gradient")
  /\ UNCHANGED <<msg, enc, data, str, hexOut>>

WalkEffectSpeed ==
  /\ pc = "effectSpeed"
  /\ dec' = DecodeEffectSpeed(dec, data)
  /\ pc' = IF dec'.err # "none" THEN "rejected" ELSE AfterField("effectSpeed")
  /\ UNCHANGED <<msg, enc, data, str, hexOut>>

WalkGradientParams ==
  /\ pc = "gradientParams"
  /\ dec' = DecodeGradientParams(dec, data)
  /\ pc' = IF dec'.err # "none" THEN "rejected" ELSE AfterField("gradientParams")
  /\ UNCHANGED <<msg, enc, data, str, hexOut>>

NextWalk ==
  \/ WalkFlags
  \/ WalkIsOn
  \/ WalkBrightness
  \/ WalkColorTemp
  \/ WalkColorXY
  \/ WalkTransitionTime
  \/ WalkEffect
  \/ WalkGradient
  \/ WalkEffectSpeed
  \/ WalkGradientParams

SpecWalk == InitWalk /\ [][NextWalk]_vars

\* the bytes the claim lets the walk advance by, block by block; the seventh
\* is the gradient's, one more than the size byte under the cursor
ClaimedAdvance(k, bytes, cursor) ==
  <<1, 1, 2, 4, 2, 1, bytes[cursor + 1] + 1, 1, 2>>[k]

\* one step of the walk as the claim describes it; a block that throws stops
\* the cursor where it was, colorXY behind x when it is y that is missing
ForwardStep ==
  /\ pc = "flags" => dec.offset = 0
  /\ dec'.offset >= dec.offset
  /\ dec'.err = "none" => dec'.offset <= Len(data)
  /\ dec'.err # "none" =>
       /\ pc' = "rejected"
       /\ dec'.offset <= Len(data)
       /\ dec'.offset = dec.offset + (IF pc = "colorXY" /\ dec.offset + 2 <= Len(data)
                                      THEN 2 ELSE 0)
  /\ (pc = "flags" /\ dec'.err = "none") => dec'.offset = 2
  /\ pc \in Fields =>
       IF Bit(dec.flags, BitOfField[pc]) = 0
       THEN dec' = dec
       ELSE dec'.err = "none" =>
              /\ dec'.offset = dec.offset + ClaimedAdvance(FieldOrder[pc], data, dec.offset)
              /\ dec'.pos[pc] = dec.offset
              /\ dec'.flags = dec.flags
  /\ pc' = "decoded" => dec'.offset <= Len(data)

\* C15: fromBytes is one forward pass: the cursor starts at 0, never
\* decreases, advances by 2 over the flag word and then, block by block, by
\* 1, 1, 2, 4, 2, 1, size + 1, 1, 2 bytes when the block's flag bit is set
\* and not at all when it is clear; a block that runs to its end leaves the
\* cursor, and so every byte it read, within the buffer.
C15_ForwardPass == [][ForwardStep]_vars

\* the gradient of one color, the effect speed and the gradient parameters
\* were read: the cursor went 0, 2, 3 + size, 4 + size, 6 + size
C15_Witness ==
  /\ pc = "decoded"
  /\ dec.flags % 512 = 448
  /\ Len(dec.result.gradient[1].colors) = 1
  /\ dec.pos["gradient"] = 2
  /\ dec.pos["effectSpeed"] = 3 + data[3]
  /\ dec.pos["gradientParams"] = 4 + data[3]
  /\ dec.offset = 6 + data[3]
  /\ dec.offset <= Len(data)
(***************************************************************************)
(* SpecScaling: a scaled color is converted with fromScaled and the color  *)
(* converted back with toScaled; or a color is given and converted with    *)
(* toScaled.                                                               *)
(***************************************************************************)
ScaledGrid ==
  UNION { {[x |-> F64OfInt(a), y |-> F64OfInt(a)],
           [x |-> F64OfInt(a), y |-> F64OfInt(4095 - a)]} : a \in 0..MaxScaled }

\* coordinates given to the HueLightColorXY constructor
Coordinates ==
  {NaN, Infinity(FALSE), Infinity(TRUE)}
    \cup { F64Div(F64OfInt(n), F64OfInt(XYDen)) : n \in (-2)..(XYDen + 2) }

Colors == [x : Coordinates, y : Coordinates]

InitScaling ==
  /\ \/ pc = "scaled" /\ msg \in ScaledGrid /\ dec = NoResult
     \/ pc = "given" /\ msg = NoMessage /\ dec \in Colors
  /\ enc = NoResult
  /\ data = <<>>
  /\ str = <<>>
  /\ hexOut = <<>>

\* HueLightColorXY.fromScaled(scaled)
FromScaled ==
  /\ pc = "scaled"
  /\ dec' = fromScaled(msg)
  /\ pc' = "unscaled"
  /\ UNCHANGED <<msg, enc, data, str, hexOut>>

\* color.toScaled(), of the color given or of the one fromScaled returned
ToScaled ==
  /\ pc \in {"given", "unscaled"}
  /\ enc' = toScaled(dec)
  /\ pc' = IF pc = "given" THEN "converted" ELSE "rescaled"
  /\ UNCHANGED <<msg, dec, data, str, hexOut>>

NextScaling == FromScaled \/ ToScaled

SpecScaling == InitScaling /\ [][NextScaling]_vars

\* v is an integer from lo to hi
IsIntegerIn(v, lo, hi) ==
  /\ v.cls = "finite"
  /\ IsZero(v) \/ v.e >= 0 \/ (v.e > -53 /\ BigLow(v.m, -v.e) = BigOf(0))
  /\ ~F64Less(v, F64OfInt(lo)) /\ ~F64Less(F64OfInt(hi), v)

\* C14: toScaled returns an integer in 0..4095 on each axis for every input,
\* and toScaled(fromScaled(s)) = s for every scaled color s with x and y in
\* 0..4095.
C14_ScaledIdempotent ==
  /\ pc \in {"converted", "rescaled"} =>
       IsIntegerIn(enc.x, 0, 4095) /\ IsIntegerIn(enc.y, 0, 4095)
  /\ pc = "rescaled" => enc = msg
====
